---- MODULE Spec2Model ----
(***************************************************************************)
(* Model of the receiving side of pcp: the session supervisor              *)
(* (receive.Node), its peer-state table, the connection and                *)
(* authentication driver Node.HandlePeerFound, the four discovery workers  *)
(* and the watch loop Node.watchDiscoverErrors.                             *)
(*                                                                         *)
(* Every goroutine is a process of the model; every access to shared       *)
(* state (the session state, the sync.Map peerStates, a worker's stage, a  *)
(* service's signals) is one atomic step, and steps of different           *)
(* goroutines interleave freely.                                            *)
(***************************************************************************)
EXTENDS Integers, FiniteSets, Sequences, TLC

(* ------------------------------ bounds --------------------------------- *)

\* number of distinct remote peer IDs that can be discovered
NumPeers == 2

\* number of HandlePeerFound goroutines the discoverers spawn in one session
NumCalls == 2

\* length of the longest bootstrap peer list
MaxBootstrapPeers == 4

\* largest value of ConnThreshold
MaxConnThreshold == 3

\* length of the longest address list of an mDNS candidate
MaxAddrs == 3

\* the latest wall-clock instant of a sender or receiver, in seconds
MaxTime == 11

Peers == 1..NumPeers
Calls == 1..NumCalls

(* ------------------------------ data model ----------------------------- *)

\* the four discovery workers the node owns
MdnsWorkers == {"mdns", "mdnsOffset"}
DhtWorkers == {"dht", "dhtOffset"}
Workers == MdnsWorkers \cup DhtWorkers

\* Stage.IsTermination
IsTermination(stg) == stg \in {"Stopped", "Error"}

\* callers of Node.Shutdown: the watch loop, a HandlePeerFound goroutine, the user
WatchCaller == 0
UserCaller == NumCalls + 1
Callers == 0..(NumCalls + 1)

VARIABLES
    state,        \* session state of the node (GetState / SetState)
    peerStates,   \* the sync.Map: peer ID -> PeerState, "Absent" = no entry
    allowList,    \* peers on the hole-punch allow list
    hpf,          \* one record per HandlePeerFound goroutine
    nodeSvc,      \* the node's own service: "Started" | "Stopping" | "Stopped"
    td,           \* per Shutdown caller: its teardown goroutine
    started,      \* which of StartDiscoveringMDNS / StartDiscoveringDHT ran
    stage,        \* per worker: the Stage of its DiscoverState
    svc,          \* per worker: its service "Idle" | "Started" | "Stopping" | "Stopped"
    watch,        \* the watchDiscoverErrors goroutine
    user,         \* whether the user has cancelled the command
    boot,         \* one run of protocol.bootstrap
    cand,         \* the mDNS model's handling of discovered candidates
    ids,          \* the discovery IDs of a sender and a receiver
    mdnsModel     \* the mDNS model: State, Err, services and their timers

vars == <<state, peerStates, allowList, hpf, nodeSvc, td, started, stage, svc,
          watch, user, boot, cand, ids, mdnsModel>>

\* the variables of the specifications of single functions, which the session
\* leaves alone
fnVars == <<boot, cand, ids, mdnsModel>>

nodeVars == <<state, peerStates, allowList, hpf>>
workerVars == <<stage, svc>>

\* a HandlePeerFound goroutine that has not been spawned yet
IdleCall ==
    [pc |-> "unborn", pi |-> 0, saw |-> "none",
     conn |-> "none", pake |-> "none", ret |-> "none",
     relay |-> "open"]

\* the node after InitNode
InitNode ==
    /\ state = "Idle"
    /\ peerStates = [p \in Peers |-> "Absent"]
    /\ allowList = {}
    /\ hpf = [i \in Calls |-> IdleCall]
    /\ nodeSvc = "Started"
    /\ td = [c \in Callers |-> "none"]
    /\ started = {}
    /\ stage = [w \in Workers |-> "Idle"]
    /\ svc = [w \in Workers |-> "Idle"]
    /\ watch = [pc |-> "select", ret |-> "none"]
    /\ user = FALSE

\* no function is being run on its own
NoRun == [ret |-> "idle"]

Init ==
    /\ InitNode
    /\ boot = NoRun
    /\ cand = NoRun
    /\ ids = NoRun
    /\ mdnsModel = NoRun

(* ------------------- service.Service (one per worker, one for the node) - *)

\* SigShutdown() is closed and ServiceContext() is cancelled
SigShutdown(s) == s \in {"Stopping", "Stopped"}

\* SigDone() is closed
SigDone(s) == s = "Stopped"

\* Service.Shutdown(): only a started service is told to stop
ServiceShutdown(s) == IF s = "Started" THEN "Stopping" ELSE s

\* Service.ServiceStopped(): closes the done signal of a service that ran
ServiceStopped(s) == IF s \in {"Started", "Stopping"} THEN "Stopped" ELSE s

(* ------------------------------ Node.Shutdown -------------------------- *)

\* Node.Shutdown() entered by caller c: the teardown goroutine is spawned and
\* the node's service is told to stop.
NodeShutdown(c) ==
    /\ td' = [td EXCEPT ![c] = "wait"]
    /\ nodeSvc' = ServiceShutdown(nodeSvc)

\* Service.Shutdown() returns at once on a service that is not running and
\* otherwise blocks until the done signal
ShutdownBlocks == nodeSvc \in {"Started", "Stopping"}

\* Node.Shutdown() has been called at least once
ShutdownCalled == \E c \in Callers : td[c] # "none"

\* stopDiscovering, first half: Shutdown() is called on each of the four workers
StopCommand ==
    svc' = [w \in Workers |-> ServiceShutdown(svc[w])]

\* stopDiscovering, second half (wg.Wait): every Shutdown() call has returned
StopReturned ==
    \A w \in Workers : svc[w] # "Stopping"

\* the goroutine of Node.Shutdown: <-n.SigShutdown(), then stopDiscovering()
TeardownStart(c) ==
    /\ td[c] = "wait"
    /\ SigShutdown(nodeSvc)
    /\ td' = [td EXCEPT ![c] = "stop"]
    /\ StopCommand
    /\ UNCHANGED <<fnVars, nodeVars, nodeSvc, started, stage, watch, user>>

\* ... UnregisterTransferHandler, statusLogger.Shutdown, ServiceStopped
TeardownFinish(c) ==
    /\ td[c] = "stop"
    /\ StopReturned
    /\ td' = [td EXCEPT ![c] = "done"]
    /\ nodeSvc' = ServiceStopped(nodeSvc)
    /\ UNCHANGED <<fnVars, nodeVars, started, workerVars, watch, user>>

(* ------------------------------ Node.HandlePeerFound ------------------- *)

\* finished HandlePeerFound goroutine, with the return site it left through
Return(i, site) == [hpf EXCEPT ![i].pc = "done", ![i].ret = site]

Goto(i, label) == [hpf EXCEPT ![i].pc = label]

\* variant: only a session that never started roaming drops the candidate
DroppedOnlyIdle(st) == st = "Idle"

\* line 386: a candidate is dropped unless the session is roaming
Dropped(st) == st # "Roaming"

\* sync.Map.LoadOrStore(pi.ID, NotConnected): the value the call returns
LoadOrStore(p) == IF peerStates[p] = "Absent" THEN "NotConnected" ELSE peerStates[p]

\* a variant in which a peer that could not be connected is skipped too
SwitchReturnsFailed(ps) ==
    ps \in {"Connecting", "FailedConnecting", "FailedAuthentication"}

\* the switch on the loaded peer state: the cases that return. There is no
\* case for Connected, so a peer in that state falls out of the switch.
SwitchReturns(ps) == ps \in {"Connecting", "FailedAuthentication"}

\* sync.Map.Store(pi.ID, v)
Store(p, v) == [peerStates EXCEPT ![p] = v]

\* line 386-394: the goroutine reads the session state; a roaming session
\* puts the peer on the hole-punch allow list (which nothing else reads)
HPF_GetState(i) ==
    /\ hpf[i].pc = "spawned"
    /\ IF Dropped(state)
       THEN /\ hpf' = [Return(i, "notRoaming") EXCEPT ![i].saw = state]
            /\ UNCHANGED allowList
       ELSE /\ hpf' = [Goto(i, "load") EXCEPT ![i].saw = state]
            /\ allowList' = allowList \cup {hpf[i].pi}
    /\ UNCHANGED <<fnVars, state, peerStates, nodeSvc, td, started, workerVars, watch, user>>

\* line 397-409: LoadOrStore and the switch on what it returned
HPF_LoadOrStore(i) ==
    /\ hpf[i].pc = "load"
    /\ peerStates' = Store(hpf[i].pi, LoadOrStore(hpf[i].pi))
    /\ hpf' = IF SwitchReturns(LoadOrStore(hpf[i].pi))
              THEN Return(i, "skipped")
              ELSE Goto(i, "store")
    /\ UNCHANGED <<fnVars, state, allowList, nodeSvc, td, started, workerVars, watch, user>>

\* variant: the goroutine calls Connect without marking the peer Connecting
HPF_StoreConnectingSkipped(i) ==
    /\ hpf[i].pc = "store"
    /\ hpf' = Goto(i, "connect")
    /\ UNCHANGED <<fnVars, state, peerStates, allowList, nodeSvc, td, started,
                   workerVars, watch, user>>

\* line 412
HPF_StoreConnecting(i) ==
    /\ hpf[i].pc = "store"
    /\ peerStates' = Store(hpf[i].pi, "Connecting")
    /\ hpf' = Goto(i, "connect")
    /\ UNCHANGED <<fnVars, state, allowList, nodeSvc, td, started, workerVars, watch, user>>

\* line 413-417: n.Connect returns; on an error FailedConnecting is stored
HPF_Connect(i) ==
    /\ hpf[i].pc = "connect"
    /\ \E ok \in BOOLEAN :
         IF ok
         THEN /\ hpf' = [Goto(i, "pake") EXCEPT ![i].conn = "ok"]
              /\ UNCHANGED peerStates
         ELSE /\ hpf' = [Return(i, "connectFailed") EXCEPT ![i].conn = "err"]
              /\ peerStates' = Store(hpf[i].pi, "FailedConnecting")
    /\ UNCHANGED <<fnVars, state, allowList, nodeSvc, td, started, workerVars, watch, user>>

\* variant: the peer is recorded as Connected whatever the key exchange said
KeyExchangeStateIgnored(ok) == "Connected"

\* a variant that records a failed key exchange like a failed Connect
KeyExchangeStateRetried(ok) == IF ok THEN "Connected" ELSE "FailedConnecting"

\* line 422-427: the peer state stored after StartKeyExchange returned
KeyExchangeState(ok) == IF ok THEN "Connected" ELSE "FailedAuthentication"

\* line 422-427: n.StartKeyExchange returns; the outcome is stored
HPF_StartKeyExchange(i) ==
    /\ hpf[i].pc = "pake"
    /\ \E ok \in BOOLEAN :
         /\ hpf' = IF ok
                   THEN [Goto(i, "check") EXCEPT ![i].pake = "ok"]
                   ELSE [Return(i, "pakeFailed") EXCEPT ![i].pake = "err"]
         /\ peerStates' = Store(hpf[i].pi, KeyExchangeState(ok))
    /\ UNCHANGED <<fnVars, state, allowList, nodeSvc, td, started, workerVars, watch, user>>

\* line 430: another goroutine has already set the session Connected
HPF_CheckConnected(i) ==
    /\ hpf[i].pc = "check"
    /\ hpf' = IF state = "Connected"
              THEN Return(i, "alreadyConnected")
              ELSE Goto(i, "setState")
    /\ UNCHANGED <<fnVars, state, peerStates, allowList, nodeSvc, td, started,
                   workerVars, watch, user>>

\* line 458-463: the answer of Network().Connectedness decides between
\* n.Shutdown() and SetState(Connected)
HPF_SetState(i) ==
    /\ hpf[i].pc = "setState"
    /\ \E connected \in BOOLEAN :
         IF connected
         THEN /\ state' = "Connected"
              /\ hpf' = Goto(i, "stopDiscovering")
              /\ UNCHANGED <<nodeSvc, td>>
         ELSE /\ hpf' = IF ShutdownBlocks
                        THEN [hpf EXCEPT ![i].pc = "inShutdown", ![i].ret = "lostConn"]
                        ELSE Return(i, "lostConn")
              /\ NodeShutdown(i)
              /\ UNCHANGED state
    /\ UNCHANGED <<fnVars, peerStates, allowList, started, workerVars, watch, user>>

\* line 466: stopDiscovering calls Shutdown() on the four workers
HPF_StopDiscovering(i) ==
    /\ hpf[i].pc = "stopDiscovering"
    /\ StopCommand
    /\ hpf' = Goto(i, "stopWait")
    /\ UNCHANGED <<fnVars, state, peerStates, allowList, nodeSvc, td, started, stage,
                   watch, user>>

\* line 477-480: the transfer goes over the direct connection, the relayed
\* connections to the peer are closed and the goroutine returns
CloseRelayedConnections(i) == [Return(i, "transfer") EXCEPT ![i].relay = "closed"]

\* variant: the relayed connections are closed whatever the wait returned
HPF_WaitForDirectConnAlwaysCloses(i) ==
    /\ hpf[i].pc = "stopWait"
    /\ StopReturned
    /\ \E ok \in BOOLEAN :
         IF ok
         THEN /\ hpf' = CloseRelayedConnections(i)
              /\ UNCHANGED <<nodeSvc, td>>
         ELSE /\ hpf' = IF ShutdownBlocks
                        THEN [hpf EXCEPT ![i].pc = "inShutdown", ![i].ret = "holePunchFailed",
                                         ![i].relay = "closed"]
                        ELSE [Return(i, "holePunchFailed") EXCEPT ![i].relay = "closed"]
              /\ NodeShutdown(i)
    /\ UNCHANGED <<fnVars, state, peerStates, allowList, started, workerVars, watch, user>>

\* line 466-480: stopDiscovering returned; WaitForDirectConn returns, and a
\* failure shuts the session down, a success closes the relayed connections
HPF_WaitForDirectConn(i) ==
    /\ hpf[i].pc = "stopWait"
    /\ StopReturned
    /\ \E ok \in BOOLEAN :
         IF ok
         THEN /\ hpf' = CloseRelayedConnections(i)
              /\ UNCHANGED <<nodeSvc, td>>
         ELSE /\ hpf' = IF ShutdownBlocks
                        THEN [hpf EXCEPT ![i].pc = "inShutdown", ![i].ret = "holePunchFailed"]
                        ELSE Return(i, "holePunchFailed")
              /\ NodeShutdown(i)
    /\ UNCHANGED <<fnVars, state, peerStates, allowList, started, workerVars, watch, user>>

\* n.Shutdown() returns to the goroutine that called it
HPF_ShutdownReturns(i) ==
    /\ hpf[i].pc = "inShutdown"
    /\ SigDone(nodeSvc)
    /\ hpf' = Goto(i, "done")
    /\ UNCHANGED <<fnVars, state, peerStates, allowList, nodeSvc, td, started,
                   workerVars, watch, user>>

HandlePeerFound(i) ==
    \/ HPF_GetState(i)
    \/ HPF_LoadOrStore(i)
    \/ HPF_StoreConnecting(i)
    \/ HPF_Connect(i)
    \/ HPF_StartKeyExchange(i)
    \/ HPF_CheckConnected(i)
    \/ HPF_SetState(i)
    \/ HPF_StopDiscovering(i)
    \/ HPF_WaitForDirectConn(i)
    \/ HPF_ShutdownReturns(i)

(* ------------------------------ starting discovery --------------------- *)

\* the channel a worker belongs to
ChannelOf(w) == IF w \in MdnsWorkers THEN "mdns" ELSE "dht"

\* StartDiscoveringMDNS: SetState(Roaming), go Discover on both mDNS workers
StartDiscoveringMDNS ==
    /\ "mdns" \notin started
    /\ started' = started \cup {"mdns"}
    /\ state' = "Roaming"
    /\ UNCHANGED <<fnVars, peerStates, allowList, hpf, nodeSvc, td, workerVars, watch, user>>

\* StartDiscoveringDHT: SetState(Roaming), go Discover on both DHT workers
StartDiscoveringDHT ==
    /\ "dht" \notin started
    /\ started' = started \cup {"dht"}
    /\ state' = "Roaming"
    /\ UNCHANGED <<fnVars, peerStates, allowList, hpf, nodeSvc, td, workerVars, watch, user>>

\* the Discover goroutine of w was spawned and has not run yet
Spawned(w) == ChannelOf(w) \in started /\ stage[w] = "Idle"

\* the Discover goroutine of w has set a terminal stage and not yet returned
Exiting(w) == IsTermination(stage[w]) /\ svc[w] \in {"Started", "Stopping"}

\* go d.notifee.HandlePeerFound(pi): goroutine i is spawned for peer p
SpawnHandlePeerFound(i, p) ==
    /\ hpf[i].pc = "unborn"
    /\ hpf' = [hpf EXCEPT ![i].pc = "spawned", ![i].pi = p]

\* a launched discoverer hands a peer to the node; the goroutine it spawns may
\* start at any later time, whatever the worker has done by then
PeerFound(i, p) ==
    /\ started # {}
    /\ SpawnHandlePeerFound(i, p)
    /\ UNCHANGED <<fnVars, state, peerStates, allowList, nodeSvc, td, started,
                   workerVars, watch, user>>

(* ------------------------------ dht.Discoverer.Discover ---------------- *)

\* ServiceStarted, then setStage(StageBootstrapping)
Discover_Start(w) ==
    /\ w \in DhtWorkers
    /\ Spawned(w)
    /\ IF svc[w] = "Idle"
       THEN /\ svc' = [svc EXCEPT ![w] = "Started"]
            /\ stage' = [stage EXCEPT ![w] = "Bootstrapping"]
       ELSE /\ stage' = [stage EXCEPT ![w] = "Error"]
            /\ UNCHANGED svc
    /\ UNCHANGED <<fnVars, nodeVars, nodeSvc, td, started, watch, user>>

\* a variant that records the context's error like any other error
AfterCallCancelIsError(err, next) ==
    CASE err = "canceled" -> "Error"
      [] err = "error"    -> "Error"
      [] OTHER            -> next

\* what Discover does with the error of bootstrap() or waitPublicAddresses()
AfterCall(err, next) ==
    CASE err = "canceled" -> "Stopped"
      [] err = "error"    -> "Error"
      [] OTHER            -> next

\* the errors bootstrap() can return: nil when enough connections were made,
\* else the context's error if it is cancelled, else the threshold error
\* (the session has bootstrap peers configured; bootstrap() itself, with no
\* peers too, is the subject of SpecBootstrap)
BootstrapResults(w) ==
    {"nil"} \cup (IF SigShutdown(svc[w]) THEN {"canceled"} ELSE {"error"})

Discover_Bootstrap(w) ==
    /\ w \in DhtWorkers
    /\ stage[w] = "Bootstrapping"
    /\ \E err \in BootstrapResults(w) :
         stage' = [stage EXCEPT ![w] = AfterCall(err, "WaitingForPublicAddrs")]
    /\ UNCHANGED <<fnVars, nodeVars, nodeSvc, td, started, svc, watch, user>>

\* the errors waitPublicAddresses() can return: the subscription error, the
\* context's error once it is cancelled, nil when a public address is known
WaitPublicAddressesResults(w) ==
    {"nil", "error"} \cup (IF SigShutdown(svc[w]) THEN {"canceled"} ELSE {})

Discover_WaitPublicAddresses(w) ==
    /\ w \in DhtWorkers
    /\ stage[w] = "WaitingForPublicAddrs"
    /\ \E err \in WaitPublicAddressesResults(w) :
         stage' = [stage EXCEPT ![w] = AfterCall(err, "Lookup")]
    /\ UNCHANGED <<fnVars, nodeVars, nodeSvc, td, started, svc, watch, user>>

\* a variant in which Discover goes on looping after it has set Stopped
InLookupLoopAfterStop(w) == stage[w] \in {"Lookup", "Retrying", "Stopped"}

\* the lookup loop is running (the stage is Lookup in the first round only)
InLookupLoop(w) == stage[w] \in {"Lookup", "Retrying"}

\* ContentID fails
Discover_ContentIDError(w) ==
    /\ w \in DhtWorkers
    /\ InLookupLoop(w)
    /\ stage' = [stage EXCEPT ![w] = "Error"]
    /\ UNCHANGED <<fnVars, nodeVars, nodeSvc, td, started, svc, watch, user>>

\* FindProvidersAsync delivers a peer with addresses
Discover_Found(w, i, p) ==
    /\ w \in DhtWorkers
    /\ InLookupLoop(w)
    /\ SpawnHandlePeerFound(i, p)
    /\ UNCHANGED <<fnVars, state, peerStates, allowList, nodeSvc, td, started,
                   workerVars, watch, user>>

\* a variant that ends the lookup loop whether or not shutdown was signalled
Discover_LookupDoneStops(w) ==
    /\ w \in DhtWorkers
    /\ InLookupLoop(w)
    /\ stage' = [stage EXCEPT ![w] = "Stopped"]
    /\ UNCHANGED <<fnVars, nodeVars, nodeSvc, td, started, svc, watch, user>>

\* the provider channel is drained: stop on the shutdown signal, else retry
Discover_LookupDone(w) ==
    /\ w \in DhtWorkers
    /\ InLookupLoop(w)
    /\ stage' = [stage EXCEPT ![w] =
                   IF SigShutdown(svc[w]) THEN "Stopped" ELSE "Retrying"]
    /\ UNCHANGED <<fnVars, nodeVars, nodeSvc, td, started, svc, watch, user>>

\* the deferred ServiceStopped() as Discover returns
Discover_Return(w) ==
    /\ Exiting(w)
    /\ svc' = [svc EXCEPT ![w] = ServiceStopped(svc[w])]
    /\ UNCHANGED <<fnVars, nodeVars, nodeSvc, td, started, stage, watch, user>>

(* ------------------------------ mdns.Discoverer.Discover --------------- *)

\* ServiceStarted, then the mDNS service is started under the discovery ID
Mdns_Start(w) ==
    /\ w \in MdnsWorkers
    /\ Spawned(w)
    /\ svc[w] = "Idle"
    /\ svc' = [svc EXCEPT ![w] = "Started"]
    /\ \E ok \in BOOLEAN :
         stage' = [stage EXCEPT ![w] = IF ok THEN "Lookup" ELSE "Error"]
    /\ UNCHANGED <<fnVars, nodeVars, nodeSvc, td, started, watch, user>>

\* the notifee is handed a peer of the local network
Mdns_Found(w, i, p) ==
    /\ w \in MdnsWorkers
    /\ stage[w] = "Lookup"
    /\ SpawnHandlePeerFound(i, p)
    /\ UNCHANGED <<fnVars, state, peerStates, allowList, nodeSvc, td, started,
                   workerVars, watch, user>>

\* at the slot boundary the service is restarted, which can fail
Mdns_RotateError(w) ==
    /\ w \in MdnsWorkers
    /\ stage[w] = "Lookup"
    /\ stage' = [stage EXCEPT ![w] = "Error"]
    /\ UNCHANGED <<fnVars, nodeVars, nodeSvc, td, started, svc, watch, user>>

\* the shutdown signal ends the worker
Mdns_Stop(w) ==
    /\ w \in MdnsWorkers
    /\ stage[w] = "Lookup"
    /\ SigShutdown(svc[w])
    /\ stage' = [stage EXCEPT ![w] = "Stopped"]
    /\ UNCHANGED <<fnVars, nodeVars, nodeSvc, td, started, svc, watch, user>>

(* ------------------------------ Node.watchDiscoverErrors --------------- *)

\* a variant that takes the Stopped stage for the failure of a worker
AllStopped == \A w \in Workers : stage[w] = "Stopped"

\* all discoverers errored out
AllError == \A w \in Workers : stage[w] = "Error"

\* all discoverers reached a termination stage
AllTerminated == \A w \in Workers : IsTermination(stage[w])

\* select: the case <-n.SigShutdown() is taken
Watch_SigShutdown ==
    /\ watch.pc = "select"
    /\ SigShutdown(nodeSvc)
    /\ watch' = [pc |-> "returned", ret |-> "sigShutdown"]
    /\ UNCHANGED <<fnVars, nodeVars, nodeSvc, td, started, workerVars, user>>

\* a variant that gives the session up as soon as one worker has failed
WatchDecisionAnyError ==
    IF \E w \in Workers : stage[w] = "Error" THEN "allError"
    ELSE IF AllTerminated THEN "allTerminated"
    ELSE "none"

\* what the loop body decides from the four stages it has read
WatchDecision ==
    IF AllError THEN "allError"
    ELSE IF AllTerminated THEN "allTerminated"
    ELSE "none"

\* select: a worker's SigDone() case is taken and the four stages are read.
\* A terminal stage never changes again, so the four reads decide as one read
\* of the four stages does.
Watch_SigDone ==
    /\ watch.pc = "select"
    /\ \E w \in Workers : SigDone(svc[w])
    /\ IF WatchDecision = "allError"
       THEN /\ watch' = [pc |-> IF ShutdownBlocks THEN "inShutdown" ELSE "returned",
                         ret |-> "allError"]
            /\ NodeShutdown(WatchCaller)
       ELSE /\ watch' = IF WatchDecision = "allTerminated"
                        THEN [pc |-> "returned", ret |-> "allTerminated"]
                        ELSE watch
            /\ UNCHANGED <<nodeSvc, td>>
    /\ UNCHANGED <<fnVars, nodeVars, started, workerVars, user>>

\* n.Shutdown() returns to the watch loop
Watch_ShutdownReturns ==
    /\ watch.pc = "inShutdown"
    /\ SigDone(nodeSvc)
    /\ watch' = [watch EXCEPT !.pc = "returned"]
    /\ UNCHANGED <<fnVars, nodeVars, nodeSvc, td, started, workerVars, user>>

(* ------------------------------ the user ------------------------------- *)

\* the command's context is cancelled (Ctrl-C): node.Shutdown()
UserCancel ==
    /\ ~user
    /\ user' = TRUE
    /\ NodeShutdown(UserCaller)
    /\ UNCHANGED <<fnVars, nodeVars, started, workerVars, watch>>

(* ------------------------------ specifications ------------------------- *)

Teardown(c) ==
    \/ TeardownStart(c)
    \/ TeardownFinish(c)

\* The connection and authentication driver on its own: the discoverers are
\* launched and hand over peers, their internal stages are left out.
NextDriver ==
    \/ StartDiscoveringMDNS
    \/ StartDiscoveringDHT
    \/ \E i \in Calls, p \in Peers : PeerFound(i, p)
    \/ \E i \in Calls : HandlePeerFound(i)
    \/ \E c \in Callers : Teardown(c)

SpecDriver == Init /\ [][NextDriver]_vars

\* The session supervisor in a session in which no peer is handed over: the
\* four workers with their stages, the watch loop, the teardown and the user.
Worker(w) ==
    \/ Discover_Start(w)
    \/ Discover_Bootstrap(w)
    \/ Discover_WaitPublicAddresses(w)
    \/ Discover_ContentIDError(w)
    \/ Discover_LookupDone(w)
    \/ Discover_Return(w)
    \/ Mdns_Start(w)
    \/ Mdns_RotateError(w)
    \/ Mdns_Stop(w)

WatchDiscoverErrors ==
    \/ Watch_SigShutdown
    \/ Watch_SigDone
    \/ Watch_ShutdownReturns

NextWatch ==
    \/ StartDiscoveringMDNS
    \/ StartDiscoveringDHT
    \/ \E w \in Workers : Worker(w)
    \/ WatchDiscoverErrors
    \/ \E c \in Callers : Teardown(c)
    \/ UserCancel

SpecWatch == Init /\ [][NextWatch]_vars

\* The whole session with one candidate handed over by the workers: the four
\* workers, one HandlePeerFound goroutine, the watch loop and the teardown.
OneCall == {i \in Calls : i = 1}

NextSession ==
    \/ StartDiscoveringMDNS
    \/ StartDiscoveringDHT
    \/ \E w \in Workers : Worker(w)
    \/ \E w \in Workers, i \in OneCall, p \in Peers : Discover_Found(w, i, p)
    \/ \E w \in Workers, i \in OneCall, p \in Peers : Mdns_Found(w, i, p)
    \/ \E i \in OneCall : HandlePeerFound(i)
    \/ WatchDiscoverErrors
    \/ \E c \in Callers : Teardown(c)

SpecSession == Init /\ [][NextSession]_vars

\* Every goroutine that can run is run in the end: the watch loop takes a
\* ready case of its select, and a returning Discover runs its deferred
\* ServiceStopped.
SpecSessionFair ==
    /\ SpecSession
    /\ WF_vars(WatchDiscoverErrors)
    /\ \A w \in Workers : WF_vars(Discover_Return(w))

\* the steps of a worker that are bound to happen: its goroutine is
\* scheduled, and a bootstrap, an event wait or a lookup round comes to an end
WorkerProgress(w) ==
    \/ Discover_Start(w)
    \/ Discover_Bootstrap(w)
    \/ Discover_WaitPublicAddresses(w)
    \/ Discover_LookupDone(w)
    \/ Discover_Return(w)
    \/ Mdns_Start(w)
    \/ Mdns_Stop(w)

\* The session in which every goroutine goes on: besides the watch loop and
\* the returning workers, the workers' blocking calls return, a spawned
\* HandlePeerFound runs to its end and the teardown goroutines proceed.
SpecSessionLive ==
    /\ SpecSession
    /\ WF_vars(WatchDiscoverErrors)
    /\ \A w \in Workers : WF_vars(WorkerProgress(w))
    /\ \A i \in OneCall : WF_vars(HandlePeerFound(i))
    /\ \A c \in Callers : WF_vars(Teardown(c))

(* ------------------------------ derived history ------------------------ *)

\* goroutines of HandlePeerFound that were handed peer p
CallsFor(p) == {i \in Calls : hpf[i].pi = p}

\* Connect calls issued for p, those that failed, and key exchanges started
ConnectCalls(p) == {i \in CallsFor(p) : hpf[i].conn # "none"}
FailedConnects(p) == {i \in CallsFor(p) : hpf[i].conn = "err"}
KeyExchanges(p) == {i \in CallsFor(p) : hpf[i].pake # "none"}
PassedKeyExchange(p) == \E i \in CallsFor(p) : hpf[i].pake = "ok"

\* peers whose table entry is Connected
ConnectedPeers == {p \in Peers : peerStates[p] = "Connected"}

\* goroutine i found the session not yet Connected at line 430, was still
\* connected at line 458 and went on to SetState(Connected)
WentOn(i) ==
    \/ hpf[i].pc \in {"stopDiscovering", "stopWait"}
    \/ hpf[i].ret \in {"transfer", "holePunchFailed"}

(* ------------------------------ claims: the peer-state table ----------- *)

\* the edges the specification allows, and the creation of an entry
AllowedEdges ==
    {<<"Absent", "NotConnected">>,
     <<"NotConnected", "Connecting">>,
     <<"Connecting", "Connected">>,
     <<"Connecting", "FailedConnecting">>,
     <<"Connecting", "FailedAuthentication">>,
     <<"FailedConnecting", "Connecting">>}

\* C1: under any interleaving of HandlePeerFound goroutines the state of a
\* peer changes only along NotConnected->Connecting, Connecting->Connected,
\* Connecting->FailedConnecting, Connecting->FailedAuthentication and
\* FailedConnecting->Connecting.
C1_OnlyAllowedEdges ==
    [][\A p \in Peers :
         peerStates'[p] # peerStates[p]
           => <<peerStates[p], peerStates'[p]>> \in AllowedEdges]_vars

\* C2: concurrent HandlePeerFound goroutines for one peer make exactly one
\* Connect call and one key exchange: as long as no Connect for the peer has
\* failed (so that nothing is retried), at most one of each is made.
C2_OneConnectPerPeer ==
    \A p \in Peers :
        FailedConnects(p) = {}
          => Cardinality(ConnectCalls(p)) <= 1 /\ Cardinality(KeyExchanges(p)) <= 1

\* C3 as stated: at most one peer of the table is Connected.
C3_AtMostOneConnected == Cardinality(ConnectedPeers) <= 1

\* C3 as amended: an entry is Connected only for a peer that has passed the
\* key exchange, so there are never more Connected entries than such peers.
C3_ConnectedPassedKeyExchange ==
    \A p \in ConnectedPeers : PassedKeyExchange(p)

\* C3 witness: two different peers passed the key exchange, both are Connected
C3_TwoConnected ==
    /\ Cardinality(ConnectedPeers) = 2
    /\ \A p \in ConnectedPeers : PassedKeyExchange(p)

\* C4: at most one goroutine finds the session not yet Connected and goes on
\* to set it Connected and to stop the discovery workers.
C4_OneGoesOn == Cardinality({i \in Calls : WentOn(i)}) <= 1

\* C5: a goroutine that finds the session not Roaming returns in that step,
\* leaving the allow list and the table as they are and calling neither
\* Connect nor the key exchange; a returned goroutine does nothing more.
C5_DroppedNoEffect ==
    [][\A i \in Calls :
         /\ (hpf[i].pc = "spawned" /\ state # "Roaming" /\ hpf'[i] # hpf[i])
              => /\ hpf'[i].pc = "done"
                 /\ hpf'[i].ret = "notRoaming"
                 /\ hpf'[i].conn = "none"
                 /\ hpf'[i].pake = "none"
                 /\ UNCHANGED <<allowList, peerStates, state, nodeSvc, td>>
         /\ hpf[i].pc = "done" => hpf'[i] = hpf[i]]_vars

\* C5 witness: a peer was handed over while the session was Connected and the
\* goroutine has returned; the peer has no entry and is not on the allow list
C5_DroppedWhenConnected ==
    \E i \in Calls :
        /\ hpf[i].saw = "Connected"
        /\ hpf[i].pc = "done"
        /\ peerStates[hpf[i].pi] = "Absent"
        /\ hpf[i].pi \notin allowList

\* C6: once the entry of a peer is FailedAuthentication it stays so.
C6_FailedAuthenticationStays ==
    [][\A p \in Peers :
         peerStates[p] = "FailedAuthentication"
           => peerStates'[p] = "FailedAuthentication"]_vars

\* C7: after Node.Shutdown() has been called no Connect call is issued.
C7_NoConnectAfterShutdown ==
    [][ShutdownCalled => \A i \in Calls : hpf'[i].conn = hpf[i].conn]_vars

(* ------------------------------ the watch loop ------------------------- *)

\* the session state became Connected at some time
EverConnected == \E i \in Calls : WentOn(i)

\* C8: once all four discovery workers are in stage Error, the watch loop
\* eventually ends with the session shut down, never silently.
C8_AllErrorShutsDown ==
    (\A w \in Workers : stage[w] = "Error")
        ~> (SigShutdown(nodeSvc) /\ watch.ret \in {"allError", "sigShutdown"})

\* the four workers failed and the watch loop called Shutdown
C8_WatchShutDown ==
    /\ \A w \in Workers : stage[w] = "Error"
    /\ td[WatchCaller] # "none"

\* C9: the watch loop calls Shutdown only with all four workers in Error; it
\* leaves the loop on its own only with all four terminal, and with a mix of
\* Stopped and Error it leaves without calling Shutdown.
C9_ShutdownOnlyAllError ==
    /\ td[WatchCaller] # "none" => \A w \in Workers : stage[w] = "Error"
    /\ watch.ret = "allError" => td[WatchCaller] # "none"
    /\ watch.ret = "allTerminated" =>
          /\ \A w \in Workers : stage[w] \in {"Stopped", "Error"}
          /\ \E w \in Workers : stage[w] = "Stopped"
          /\ td[WatchCaller] = "none"

\* the loop was left silently with some workers stopped and some failed
C9_SilentExitOnMix ==
    /\ watch.ret = "allTerminated"
    /\ \E w \in Workers : stage[w] = "Error"
    /\ \E w \in Workers : stage[w] = "Stopped"

\* C10: when all four workers are terminal, at least one of them in Error,
\* and the session never became Connected, the session is shut down in the end.
C10_FailedSessionShutsDown ==
    (/\ \A w \in Workers : stage[w] \in {"Stopped", "Error"}
     /\ \E w \in Workers : stage[w] = "Error"
     /\ ~EverConnected)
        ~> SigShutdown(nodeSvc)

\* a mix of stopped and failed workers in a shut down session that never
\* became Connected
C10_MixShutDown ==
    /\ \A w \in Workers : stage[w] \in {"Stopped", "Error"}
    /\ \E w \in Workers : stage[w] = "Error"
    /\ \E w \in Workers : stage[w] = "Stopped"
    /\ ~EverConnected
    /\ SigShutdown(nodeSvc)

(* ------------------------------ the session state ---------------------- *)

\* C16: the session state only moves forward, from Idle to Roaming and from
\* Roaming to Connected.
C16_SessionStateForward ==
    [][state' # state =>
         <<state, state'>> \in {<<"Idle", "Roaming">>, <<"Roaming", "Connected">>}]_vars

(* ------------------------------ failures of one peer ------------------- *)

\* C17: the step in which the key exchange with a peer fails stores
\* FailedAuthentication for that peer and ends the goroutine; the entries of
\* the other peers, the session state, the node's service, the workers and
\* their services stay as they are.
C17_PakeFailureStaysLocal ==
    [][\A i \in Calls :
         (hpf[i].pake = "none" /\ hpf'[i].pake = "err") =>
            /\ peerStates' = [peerStates EXCEPT ![hpf[i].pi] = "FailedAuthentication"]
            /\ hpf'[i].pc = "done"
            /\ \A j \in Calls \ {i} : hpf'[j] = hpf[j]
            /\ UNCHANGED <<state, nodeSvc, td, started, stage, svc, watch>>]_vars

\* one peer failed the key exchange, and another peer was then connected and
\* authenticated in the session, which became Connected
C17_LaterPeerAuthenticated ==
    \E p \in Peers, i \in Calls :
        /\ peerStates[p] = "FailedAuthentication"
        /\ hpf[i].pi # p
        /\ hpf[i].pake = "ok"
        /\ peerStates[hpf[i].pi] = "Connected"
        /\ state = "Connected"
        /\ ~ShutdownCalled

\* C18: the step in which Connect to a peer fails stores FailedConnecting for
\* that peer and ends the goroutine with no key exchange, leaving the session
\* state and everything else as it is; a goroutine that loads
\* FailedConnecting for its peer goes on, stores Connecting and calls Connect.
C18_ConnectFailureRetried ==
    [][\A i \in Calls :
         /\ (hpf[i].conn = "none" /\ hpf'[i].conn = "err") =>
               /\ peerStates' = [peerStates EXCEPT ![hpf[i].pi] = "FailedConnecting"]
               /\ hpf'[i].pc = "done"
               /\ hpf'[i].pake = "none"
               /\ \A j \in Calls \ {i} : hpf'[j] = hpf[j]
               /\ UNCHANGED <<state, nodeSvc, td, started, stage, svc, watch>>
         /\ (/\ hpf[i].pc = "load"
             /\ peerStates[hpf[i].pi] = "FailedConnecting"
             /\ hpf'[i] # hpf[i]) => hpf'[i].pc = "store"
         /\ (hpf[i].pc = "store" /\ hpf'[i] # hpf[i]) =>
               /\ hpf'[i].pc = "connect"
               /\ peerStates'[hpf[i].pi] = "Connecting"
         /\ (hpf[i].pc = "connect" /\ hpf'[i] # hpf[i]) =>
               hpf'[i].conn # "none"]_vars

\* Connect failed for a peer in one goroutine, which returned, and a second
\* goroutine for the same peer has called Connect with success
C18_Retried ==
    \E i \in Calls, j \in Calls :
        /\ i # j
        /\ hpf[i].pi = hpf[j].pi
        /\ hpf[i].ret = "connectFailed"
        /\ hpf[j].conn = "ok"
        /\ state = "Roaming"

(* ------------------------------ stopping the workers -------------------- *)

\* C19: after the session state has become Connected each of the four
\* discovery workers eventually reaches stage Stopped.
C19_AllStoppedAfterConnected ==
    \A w \in Workers : EverConnected ~> (stage[w] = "Stopped")

(* ------------------------------ the DHT discoverer --------------------- *)

\* C13: once the stage of a DHT discoverer is Stopped or Error it never
\* changes again, and the worker neither runs another round of its lookup
\* loop nor hands another peer to the notifee.
C13_TerminalStagesStay ==
    [][\A w \in DhtWorkers :
         stage[w] \in {"Stopped", "Error"} =>
            /\ stage'[w] = stage[w]
            /\ ~Discover_LookupDone(w)
            /\ \A i \in Calls, p \in Peers : ~Discover_Found(w, i, p)]_vars

\* one DHT discoverer has returned Stopped, the other has returned in Error,
\* and a peer was handed over on the way
C13_BothTerminal ==
    /\ stage["dht"] = "Stopped" /\ svc["dht"] = "Stopped"
    /\ stage["dhtOffset"] = "Error" /\ svc["dhtOffset"] = "Stopped"
    /\ \E i \in Calls : hpf[i].pc # "unborn"

\* C20: every round of the lookup loop of a DHT discoverer, with the peers
\* its provider lookup delivers, runs while the stage is Lookup: the stage is
\* back at Lookup whenever a lookup is issued after a retry.
C20_LookupsInStageLookup ==
    [][\A w \in DhtWorkers :
         (\/ Discover_LookupDone(w)
          \/ \E i \in Calls, p \in Peers : Discover_Found(w, i, p))
            => stage[w] = "Lookup"]_vars

\* C22: within one HandlePeerFound invocation the peer is on the allow list
\* and its entry has been set Connecting by this invocation when Connect is
\* called; the key exchange is run only after this invocation's Connect
\* succeeded; the invocation stores Connected only with a key exchange that
\* succeeded.
C22_StepsInOrder ==
    [][\A i \in Calls :
         /\ (hpf[i].pc # "connect" /\ hpf'[i].pc = "connect")
               => /\ hpf[i].pi \in allowList
                  /\ hpf[i].pc = "store"
                  /\ peerStates'[hpf[i].pi] = "Connecting"
         /\ (hpf[i].conn = "none" /\ hpf'[i].conn # "none")
               => hpf[i].pc = "connect" /\ hpf[i].pi \in allowList
         /\ (hpf[i].pc # "pake" /\ hpf'[i].pc = "pake")
               => hpf'[i].conn = "ok"
         /\ (hpf[i].pake = "none" /\ hpf'[i].pake # "none")
               => hpf[i].pc = "pake" /\ hpf[i].conn = "ok"
         /\ (/\ hpf'[i] # hpf[i]
             /\ hpf[i].pi # 0
             /\ peerStates'[hpf[i].pi] # peerStates[hpf[i].pi]
             /\ peerStates'[hpf[i].pi] = "Connected")
               => hpf[i].conn = "ok" /\ hpf'[i].pake = "ok"]_vars

\* one invocation ran allow-list add, Connect and the key exchange to a
\* Connected entry, another one stopped at a failed Connect
C22_FullAndShortRun ==
    \E i, j \in Calls :
        /\ hpf[i].conn = "ok" /\ hpf[i].pake = "ok"
        /\ hpf[j].conn = "err" /\ hpf[j].pake = "none"
        /\ {hpf[i].pi, hpf[j].pi} \subseteq allowList

\* C23: the driver waits for the direct connection after its
\* stopDiscovering call returned; a wait that fails calls Shutdown() and
\* leaves the relayed connections open; the driver closes the relayed
\* connections only in the step in which the wait succeeded, and an
\* invocation whose wait failed never closes them.
C23_RelayClosedOnlyAfterWait ==
    [][\A i \in Calls :
         /\ (hpf[i].pc = "stopWait" /\ hpf'[i].pc # "stopWait")
               => /\ hpf[i].pake = "ok"
                  /\ StopReturned
                  /\ hpf'[i].ret \in {"transfer", "holePunchFailed"}
         /\ (hpf[i].ret # "holePunchFailed" /\ hpf'[i].ret = "holePunchFailed")
               => /\ hpf[i].pc = "stopWait"
                  /\ td'[i] = "wait"
                  /\ SigShutdown(nodeSvc')
                  /\ hpf'[i].relay = "open"
         /\ hpf'[i].relay # hpf[i].relay
               => /\ hpf[i].pc = "stopWait"
                  /\ hpf'[i].relay = "closed"
                  /\ hpf'[i].ret = "transfer"
                  /\ td'[i] = "none"]_vars

\* the wait of one invocation failed and the session is torn down, the wait
\* of another one succeeded and it closed the relayed connections
C23_WaitFailedAndSucceeded ==
    \E i, j \in Calls :
        /\ hpf[i].ret = "holePunchFailed" /\ hpf[i].relay = "open"
        /\ hpf[j].ret = "transfer" /\ hpf[j].relay = "closed"

\* C26: while the session is Connected, the peer of every invocation that
\* set the session Connected has the entry Connected in the peer-state table.
C26_ConnectedPeerStaysConnected ==
    state = "Connected"
        => \A i \in Calls :
               WentOn(i) => peerStates[hpf[i].pi] = "Connected"

\* C27: at most one caller's Shutdown() has its teardown sequence (stop the
\* discoverers, ..., mark the service stopped) started or finished.
C27_TeardownRunsOnce ==
    Cardinality({c \in Callers : td[c] \in {"stop", "done"}}) <= 1

sessionVars ==
    <<state, peerStates, allowList, hpf, nodeSvc, td, started, stage, svc,
      watch, user>>

\* bootstrap() is entered with peerCount bootstrap peers and the threshold t;
\* one Connect goroutine per peer is started, none has resolved yet
BootstrapEntered(peerCount, t) ==
    [peerCount |-> peerCount, ConnThreshold |-> t,
     attempt |-> [i \in 1..peerCount |-> "pending"],
     errs |-> <<>>, cancelled |-> FALSE, ret |-> "running", retErrs |-> <<>>]

InitBootstrap ==
    /\ InitNode
    /\ \E peerCount \in 0..MaxBootstrapPeers, t \in 1..MaxConnThreshold :
         boot = BootstrapEntered(peerCount, t)
    /\ cand = NoRun
    /\ ids = NoRun
    /\ mdnsModel = NoRun

\* the Connect to bootstrap peer i resolves; its result goes through errChan
\* and a non-nil error is appended to errs.BootstrapErrs
Bootstrap_Connect(i) ==
    /\ boot.ret = "running"
    /\ i \in 1..boot.peerCount
    /\ boot.attempt[i] = "pending"
    /\ \E ok \in BOOLEAN :
         boot' = [boot EXCEPT
                    !.attempt[i] = IF ok THEN "ok" ELSE "err",
                    !.errs = IF ok THEN @ ELSE Append(@, i)]
    /\ UNCHANGED <<sessionVars, cand, ids, mdnsModel>>

\* the service context is cancelled while bootstrap runs
Bootstrap_Cancel ==
    /\ boot.ret = "running"
    /\ ~boot.cancelled
    /\ boot' = [boot EXCEPT !.cancelled = TRUE]
    /\ UNCHANGED <<sessionVars, cand, ids, mdnsModel>>

\* a variant of the test that demands one connection more
BelowThresholdInclusive(peerCount, nErrs, t) == peerCount - nErrs <= t

\* peerCount-len(errs.BootstrapErrs) < ConnThreshold
BelowThreshold(peerCount, nErrs, t) == peerCount - nErrs < t

\* a variant that returns the collected errors even when cancelled
BootstrapResultErrsFirst(b) ==
    IF BelowThreshold(b.peerCount, Len(b.errs), b.ConnThreshold)
    THEN "threshold"
    ELSE "nil"

\* what bootstrap() returns once errChan is closed
BootstrapResult(b) ==
    IF BelowThreshold(b.peerCount, Len(b.errs), b.ConnThreshold)
    THEN IF b.cancelled THEN "canceled" ELSE "threshold"
    ELSE "nil"

\* bootstrap() returns: at once without bootstrap peers, else after every
\* Connect has resolved and errChan was closed
Bootstrap_Return ==
    /\ boot.ret = "running"
    /\ IF boot.peerCount = 0
       THEN boot' = [boot EXCEPT !.ret = "noPeers"]
       ELSE /\ \A i \in 1..boot.peerCount : boot.attempt[i] # "pending"
            /\ boot' = [boot EXCEPT
                          !.ret = BootstrapResult(boot),
                          !.retErrs = IF BootstrapResult(boot) = "threshold"
                                      THEN boot.errs ELSE <<>>]
    /\ UNCHANGED <<sessionVars, cand, ids, mdnsModel>>

NextBootstrap ==
    \/ \E i \in 1..MaxBootstrapPeers : Bootstrap_Connect(i)
    \/ Bootstrap_Cancel
    \/ Bootstrap_Return

SpecBootstrap == InitBootstrap /\ [][NextBootstrap]_vars

\* the attempts that succeeded and those that failed
Succeeded == {i \in 1..boot.peerCount : boot.attempt[i] = "ok"}
Failed == {i \in 1..boot.peerCount : boot.attempt[i] = "err"}

\* C11: with bootstrap peers configured, bootstrap returns only after every
\* attempt has resolved; it returns nil if at least ConnThreshold attempts
\* succeeded, else the context's error if the context was cancelled, else
\* ErrConnThresholdNotReached carrying the error of each failed attempt once.
C11_BootstrapResult ==
    (boot.ret \notin {"idle", "running"} /\ boot.peerCount > 0) =>
        /\ Succeeded \cup Failed = 1..boot.peerCount
        /\ Cardinality(Succeeded) >= boot.ConnThreshold => boot.ret = "nil"
        /\ (Cardinality(Succeeded) < boot.ConnThreshold /\ boot.cancelled)
             => boot.ret = "canceled"
        /\ (Cardinality(Succeeded) < boot.ConnThreshold /\ ~boot.cancelled)
             => /\ boot.ret = "threshold"
                /\ Len(boot.retErrs) = Cardinality(Failed)
                /\ {boot.retErrs[k] : k \in 1..Len(boot.retErrs)} = Failed

\* bootstrap failed below the threshold with some attempts succeeded
C11_ThresholdNotReached ==
    /\ boot.ret = "threshold"
    /\ Succeeded # {}
    /\ Cardinality(Failed) >= 2

\* C12 as stated: with N peers and exactly N - ConnThreshold successful
\* connections bootstrap succeeds, with one fewer it fails with
\* ErrConnThresholdNotReached (context not cancelled).
C12_SucceedsWithNMinusThreshold ==
    (/\ boot.ret \notin {"idle", "running"}
     /\ ~boot.cancelled
     /\ boot.peerCount >= boot.ConnThreshold) =>
        /\ Cardinality(Succeeded) = boot.peerCount - boot.ConnThreshold
             => boot.ret = "nil"
        /\ Cardinality(Succeeded) + 1 = boot.peerCount - boot.ConnThreshold
             => boot.ret = "threshold"

\* C12 as amended: with exactly ConnThreshold successful connections
\* bootstrap succeeds, with one fewer it fails with ErrConnThresholdNotReached
\* (bootstrap peers configured, context not cancelled).
C12_SucceedsWithThreshold ==
    (/\ boot.ret \notin {"idle", "running"}
     /\ ~boot.cancelled
     /\ boot.peerCount > 0) =>
        /\ Cardinality(Succeeded) = boot.ConnThreshold => boot.ret = "nil"
        /\ Cardinality(Succeeded) + 1 = boot.ConnThreshold
             => boot.ret = "threshold"

\* 3 of 4 peers connected with ConnThreshold 3: exactly at the threshold,
\* which is more than N - ConnThreshold
C12_AtThreshold ==
    /\ boot.ret = "nil"
    /\ boot.peerCount = 4
    /\ boot.ConnThreshold = 3
    /\ Cardinality(Succeeded) = 3

(* ------------------------------ mdns.Model.HandlePeerFound ------------- *)

\* the addresses a candidate can carry
PrivateAddrs == {"10.0.0.7", "192.168.1.7"}
PublicAddrs == {"8.8.8.8"}

\* manet.IsPrivateAddr
IsPrivateAddr(addr) == addr \in PrivateAddrs

\* address lists of up to MaxAddrs addresses
AddrLists ==
    UNION {[1..n -> PrivateAddrs \cup PublicAddrs] : n \in 0..MaxAddrs}

\* m.host.ID(), the ID of the local host
HostID == 0

\* a variant that lets every address through
onlyPrivateKeepsAll(addrs) == addrs

\* onlyPrivate: the private addresses of the list, in order
onlyPrivate(addrs) == SelectSeq(addrs, IsPrivateAddr)

\* the mDNS service calls the notifee with the candidate pi
InitModel ==
    /\ InitNode
    /\ boot = NoRun
    /\ \E id \in {HostID} \cup Peers, addrs \in AddrLists :
         cand = [pi |-> [ID |-> id, Addrs |-> addrs],
                 ret |-> "running", sent |-> <<>>]
    /\ ids = NoRun
    /\ mdnsModel = NoRun

\* the candidate is ourself
Model_FoundOurself ==
    /\ cand.ret = "running"
    /\ cand.pi.ID = HostID
    /\ cand' = [cand EXCEPT !.ret = "ourself"]
    /\ UNCHANGED <<sessionVars, boot, ids, mdnsModel>>

\* the candidate is another peer: its addresses are filtered and, if any is
\* left, PeerMsg(pi) is sent to the program
Model_FoundPeer ==
    /\ cand.ret = "running"
    /\ cand.pi.ID # HostID
    /\ IF Len(onlyPrivate(cand.pi.Addrs)) = 0
       THEN cand' = [cand EXCEPT !.ret = "noPrivateAddrs"]
       ELSE cand' = [cand EXCEPT
                       !.ret = "sent",
                       !.sent = <<[ID |-> cand.pi.ID,
                                   Addrs |-> onlyPrivate(cand.pi.Addrs)]>>]
    /\ UNCHANGED <<sessionVars, boot, ids, mdnsModel>>

NextModel ==
    \/ Model_FoundOurself
    \/ Model_FoundPeer

SpecModel == InitModel /\ [][NextModel]_vars

\* the elements of a sequence
Range(seq) == {seq[k] : k \in 1..Len(seq)}

\* C14: a candidate without a private address is never sent on as a peer
\* message; a message that is sent carries the candidate's ID and exactly its
\* private addresses, of which there is at least one.
C14_OnlyPrivateSent ==
    /\ cand.ret \notin {"idle", "running"} =>
          /\ Range(cand.pi.Addrs) \cap PrivateAddrs = {} => cand.sent = <<>>
          /\ cand.ret # "sent" => cand.sent = <<>>
    /\ cand.ret = "sent" =>
          /\ Len(cand.sent) = 1
          /\ cand.sent[1].ID = cand.pi.ID
          /\ Len(cand.sent[1].Addrs) >= 1
          /\ Range(cand.sent[1].Addrs) = Range(cand.pi.Addrs) \cap PrivateAddrs

\* a candidate with public and private addresses was sent on without the
\* public ones
C14_PublicDropped ==
    /\ cand.ret = "sent"
    /\ Range(cand.pi.Addrs) \cap PublicAddrs # {}
    /\ Range(cand.sent[1].Addrs) \cap PublicAddrs = {}

(* ------------------------------ discovery IDs -------------------------- *)

\* discovery.TruncateDuration, the slot length, scaled down to seconds
TruncateDuration == 3

\* a variant with the current slot only
OffsetsCurrentOnly == {0}

\* the offsets of the two discoverers (and advertisers) of a channel
Offsets == {0, -TruncateDuration}

\* the channel numbers a session can use
Channels == {1, 12}

\* the wall-clock instants; none is earlier than one slot after the epoch
Instants == TruncateDuration..MaxTime

\* time.Truncate: the start of the slot an instant lies in
Truncate(t) == t - (t % TruncateDuration)

\* the number of the slot an instant lies in
SlotOf(t) == t \div TruncateDuration

\* the decimal digits of a natural number
RECURSIVE Decimal(_)
Decimal(n) ==
    IF n < 10
    THEN <<n>>
    ELSE Append(Decimal(n \div 10), n % 10)

\* the discovery ID: decimal channel number, a separator, decimal seconds of
\* the start of the slot of now+offset
DiscoveryID(chanID, offset, now) ==
    Decimal(chanID) \o <<"/">> \o Decimal(Truncate(now + offset))

\* the IDs the workers of one side use at the instant now
DiscoveryIDs(chanID, now) ==
    {DiscoveryID(chanID, offset, now) : offset \in Offsets}

\* a sender and a receiver on the same channel, each with its own clock
InitIDs ==
    /\ InitNode
    /\ boot = NoRun
    /\ cand = NoRun
    /\ mdnsModel = NoRun
    /\ \E c \in Channels, ts \in Instants, tr \in Instants :
         ids = [chanID |-> c, sender |-> ts, receiver |-> tr,
                published |-> {}, lookedUp |-> {}, ret |-> "running"]

\* the sender's advertisers publish their discovery IDs
Advertise ==
    /\ ids.ret = "running"
    /\ ids.published = {}
    /\ ids' = [ids EXCEPT !.published = DiscoveryIDs(ids.chanID, ids.sender)]
    /\ UNCHANGED <<sessionVars, boot, cand, mdnsModel>>

\* the receiver's discoverers look their discovery IDs up
Lookup ==
    /\ ids.ret = "running"
    /\ ids.lookedUp = {}
    /\ ids' = [ids EXCEPT !.lookedUp = DiscoveryIDs(ids.chanID, ids.receiver)]
    /\ UNCHANGED <<sessionVars, boot, cand, mdnsModel>>

NextIDs ==
    \/ Advertise
    \/ Lookup

SpecIDs == InitIDs /\ [][NextIDs]_vars

\* the two instants lie in the same slot or in adjacent slots
SameOrAdjacentSlot(t1, t2) ==
    \/ SlotOf(t1) = SlotOf(t2)
    \/ SlotOf(t1) = SlotOf(t2) + 1
    \/ SlotOf(t2) = SlotOf(t1) + 1

\* C15: when the sender has published and the receiver has looked up, both
\* on the same channel with the offsets 0 and minus one slot, and their
\* instants lie in the same slot or in adjacent slots, some discovery ID is
\* both published and looked up.
C15_OffsetsRendezvous ==
    (/\ ids.ret = "running"
     /\ ids.published # {}
     /\ ids.lookedUp # {}
     /\ SameOrAdjacentSlot(ids.sender, ids.receiver))
        => ids.published \cap ids.lookedUp # {}

\* the sender is one second before a slot boundary, the receiver one second
\* after it, and exactly one discovery ID is shared
C15_AcrossBoundary ==
    /\ ids.ret = "running"
    /\ ids.receiver = ids.sender + 2
    /\ SlotOf(ids.receiver) = SlotOf(ids.sender) + 1
    /\ Cardinality(ids.published \cap ids.lookedUp) = 1

(* ------------------------------ mdns.Model.Update ----------------------- *)

\* the number of mdns.Service objects one run of the model creates
MaxServices == 6

\* m.services[offset]: the service object held for the offset, 0 for none
NoService == 0

\* the service objects m.services holds
Held(m) == {m.services[o] : o \in Offsets} \ {NoService}

\* a service that was started and on which Close() was never called
Live(m, k) == m.objs[k].started /\ m.objs[k].closes = 0

\* svc.Close() on the object k; an error it returns is only logged
Close(objs, k) == [objs EXCEPT ![k].closes = @ + 1]

\* the loop of reset(): Close() on every service the map holds
CloseAll(m) ==
    [k \in DOMAIN m.objs |->
        IF k \in Held(m) THEN Close(m.objs, k)[k] ELSE m.objs[k]]

\* reset(): closes the services, empties the map, StateIdle and no error
reset(m) ==
    [m EXCEPT !.objs = CloseAll(m),
              !.services = [o \in Offsets |-> NoService],
              !.State = "StateIdle",
              !.Err = "nil"]

\* newService(offset): a new service object is made and Start() is called
newService(m, offset, ok) ==
    [m EXCEPT !.objs = Append(@, [offset |-> offset, started |-> ok, closes |-> 0])]

\* the model after Start: StateStarted with one started service and one
\* rotation timer for each of its offsets
InitUpdate ==
    /\ InitNode
    /\ boot = NoRun
    /\ cand = NoRun
    /\ ids = NoRun
    /\ \E offs \in (SUBSET Offsets) \ {{}} :
         LET start[todo \in SUBSET offs] ==
                 IF todo = {}
                 THEN [ret |-> "running", pc |-> "idle", msg |-> 0,
                       State |-> "StateIdle", Err |-> "nil",
                       services |-> [o \in Offsets |-> NoService],
                       objs |-> <<>>, timers |-> {}, exited |-> FALSE]
                 ELSE LET o == CHOOSE x \in todo : \A y \in todo : x >= y
                          m == newService(start[todo \ {o}], o, TRUE)
                      IN  [m EXCEPT !.services[o] = Len(m.objs),
                                    !.timers = @ \cup {o}]
         IN  mdnsModel = [start[offs] EXCEPT !.State = "StateStarted"]

Running == mdnsModel.ret = "running" /\ ~mdnsModel.exited

\* line 72-76: an updateMsg reaches a model that is not started: log.Fatal
Update_NotStarted(o) ==
    /\ Running
    /\ mdnsModel.pc = "idle"
    /\ o \in mdnsModel.timers
    /\ mdnsModel.State # "StateStarted"
    /\ mdnsModel' = [mdnsModel EXCEPT !.timers = @ \ {o}, !.exited = TRUE]
    /\ UNCHANGED <<sessionVars, boot, cand, ids>>

\* variant: the old service is left running when its offset rotates
Update_CloseSkipped(o) ==
    /\ Running
    /\ mdnsModel.pc = "idle"
    /\ o \in mdnsModel.timers
    /\ mdnsModel.State = "StateStarted"
    /\ mdnsModel' =
         IF mdnsModel.services[o] = NoService
         THEN [mdnsModel EXCEPT !.timers = @ \ {o}]
         ELSE [mdnsModel EXCEPT !.timers = @ \ {o}, !.pc = "closed", !.msg = o]
    /\ UNCHANGED <<sessionVars, boot, cand, ids>>

\* line 72-88: the rotation timer of offset o delivers its updateMsg to a
\* started model; the service of the offset, if there is one, is closed
Update_Close(o) ==
    /\ Running
    /\ mdnsModel.pc = "idle"
    /\ o \in mdnsModel.timers
    /\ mdnsModel.State = "StateStarted"
    /\ mdnsModel' =
         IF mdnsModel.services[o] = NoService
         THEN [mdnsModel EXCEPT !.timers = @ \ {o}]
         ELSE [mdnsModel EXCEPT !.timers = @ \ {o},
                                !.objs = Close(@, mdnsModel.services[o]),
                                !.pc = "closed", !.msg = o]
    /\ UNCHANGED <<sessionVars, boot, cand, ids>>

\* line 90-99: newService(msg.offset); the new service replaces the old one
\* and the next rotation is scheduled, or a failed start resets the model
\* and leaves it in StateError
Update_NewService ==
    /\ Running
    /\ mdnsModel.pc = "closed"
    /\ Len(mdnsModel.objs) < MaxServices
    /\ \E ok \in BOOLEAN :
         LET o == mdnsModel.msg
             m == newService(mdnsModel, o, ok)
         IN  mdnsModel' =
               IF ok
               THEN [m EXCEPT !.services[o] = Len(m.objs),
                              !.timers = @ \cup {o},
                              !.pc = "idle"]
               ELSE [reset(m) EXCEPT !.State = "StateError",
                                     !.Err = "start mdns service offset",
                                     !.pc = "idle"]
    /\ UNCHANGED <<sessionVars, boot, cand, ids>>

NextUpdate ==
    \/ \E o \in Offsets : Update_NotStarted(o)
    \/ \E o \in Offsets : Update_Close(o)
    \/ Update_NewService

SpecUpdate == InitUpdate /\ [][NextUpdate]_vars

\* the live services of the model that were started for the offset o
LiveFor(m, o) == {k \in DOMAIN m.objs : m.objs[k].offset = o /\ Live(m, k)}

\* a started model has at most one live service for each offset
OneLivePerOffset(m) ==
    m.State = "StateStarted" => \A o \in Offsets : Cardinality(LiveFor(m, o)) <= 1

\* the entry and the service of every offset but o are what they were
OthersUntouched(m, n, o) ==
    \A p \in Offsets \ {o} :
        /\ n.services[p] = m.services[p]
        /\ m.services[p] # NoService => n.objs[m.services[p]] = m.objs[m.services[p]]

\* C24: a started mDNS model has at most one live service per offset. A
\* rotation message closes the service of its offset before the replacement
\* is made and leaves the other offsets alone; a replacement that started is
\* the new entry of the offset and a new rotation timer is scheduled; when
\* the replacement fails to start every service the model held has been
\* closed, the map is empty and the model is in StateError with the error.
C24_RotationReplacesOrResets ==
    /\ OneLivePerOffset(mdnsModel)
    /\ [][/\ OneLivePerOffset(mdnsModel')
          /\ (mdnsModel.pc = "idle" /\ mdnsModel'.pc = "closed")
                => LET o == mdnsModel'.msg
                   IN  /\ mdnsModel.State = "StateStarted"
                       /\ mdnsModel'.State = "StateStarted"
                       /\ Len(mdnsModel'.objs) = Len(mdnsModel.objs)
                       /\ mdnsModel'.services = mdnsModel.services
                       /\ ~Live(mdnsModel', mdnsModel.services[o])
                       /\ OthersUntouched(mdnsModel, mdnsModel', o)
          /\ (mdnsModel.pc = "closed" /\ mdnsModel'.pc = "idle")
                => LET o == mdnsModel.msg
                       new == Len(mdnsModel'.objs)
                   IN  \/ /\ mdnsModel'.State = "StateStarted"
                          /\ mdnsModel'.Err = "nil"
                          /\ new = Len(mdnsModel.objs) + 1
                          /\ mdnsModel'.services[o] = new
                          /\ LiveFor(mdnsModel', o) = {new}
                          /\ o \in mdnsModel'.timers
                          /\ OthersUntouched(mdnsModel, mdnsModel', o)
                       \/ /\ mdnsModel'.State = "StateError"
                          /\ mdnsModel'.Err # "nil"
                          /\ ~mdnsModel'.objs[new].started
                          /\ Held(mdnsModel') = {}
                          /\ \A k \in Held(mdnsModel) : ~Live(mdnsModel', k)]_vars

\* a rotation replaced a service, a later one failed to start its
\* replacement: the model is in StateError and holds no service
C24_ReplacedThenReset ==
    /\ mdnsModel.ret = "running"
    /\ mdnsModel.State = "StateError"
    /\ Held(mdnsModel) = {}
    /\ \E k \in DOMAIN mdnsModel.objs :
          /\ k > Cardinality(Offsets)
          /\ mdnsModel.objs[k].started
          /\ mdnsModel.objs[k].closes > 0

\* C25: Close() is called at most once on every mDNS service object
C25_ClosedAtMostOnce ==
    mdnsModel.ret = "running"
        => \A k \in DOMAIN mdnsModel.objs : mdnsModel.objs[k].closes <= 1

====
